---------------------------- MODULE Spec2Model ----------------------------
(***************************************************************************)
(* A model of spm/make_spm.py, the generator of the swift-brave package:   *)
(* main's pipeline (validate, clean, copy templates, copy sources, apply   *)
(* patches, normalize the Cargo manifest, build the XCFramework, run the   *)
(* tests), the filesystem the reset stages act on, and the text rewriting  *)
(* of the manifest normalizer.                                             *)
(*                                                                         *)
(* Text is a sequence of tokens.  A token stands for one literal piece of  *)
(* the manifest: "NL" a line break, "SP" a blank, "HDR" the text           *)
(* [profile.release], "LB" an opening bracket, "BS" a backslash, "EQ" the  *)
(* equals sign, "lto" and "cgu" the keys lto and codegen-units, "STO_ON" / *)
(* "STO_OFF" / "CT_RLIB" / "CT_BOTH" the four literal lines of             *)
(* normalize_rust_features, and "W", "thin", "fat", "1", "16" other words. *)
(***************************************************************************)
EXTENDS Integers, Sequences, FiniteSets, TLC

VARIABLES
    pc,        \* main's position: the stage about to run, "done" or "failed"
    args,      \* parse_args' namespace: swift_brave_path, skip_build, skip_tests
    dest,      \* main's dest: the resolved destination (<<>> before validation)
    fs,        \* the filesystem: path -> node
    fs0,       \* the filesystem when the run started
    events,    \* what the process did, in order: lines printed, processes started
    stages,    \* the stages main has entered, in order
    exitCode,  \* the process's exit status (-1 while it runs)
    error,     \* the exception that ended the run ("none" while there is none)
    todo,      \* clean_destination: the entries dest.iterdir() has yet to yield
    rm,        \* remove_tree: the call in progress
    world,     \* what the run has read of its inputs outside the destination
    environ,   \* os.environ, the environment of the process
    step,      \* the position inside a stage: [op, i]
    round,     \* how many times the operation under study has been applied
    snap       \* the results of the earlier applications

vars == <<pc, args, dest, fs, fs0, events, stages, exitCode, error,
          todo, rm, world, environ, step, round, snap>>

---------------------------------------------------------------------------
(* Sequences and text                                                      *)

Min(S) == CHOOSE x \in S : \A y \in S : x <= y

Max(S) == CHOOSE x \in S : \A y \in S : x >= y

\* s[a..b], empty when a > b (Python's text[a-1:b])
Slice(s, a, b) == IF a > b THEN << >> ELSE SubSeq(s, a, b)

IsPrefix(p, q) == Len(p) <= Len(q) /\ SubSeq(q, 1, Len(p)) = p

RECURSIVE Flatten(_)
Flatten(ss) == IF ss = << >> THEN << >> ELSE Head(ss) \o Flatten(Tail(ss))

\* str.isspace for one token
IsSpace(t) == t \in {"NL", "SP"}

\* str.rstrip()
RECURSIVE RStrip(_)
RStrip(t) ==
    IF t # << >> /\ IsSpace(t[Len(t)]) THEN RStrip(SubSeq(t, 1, Len(t) - 1)) ELSE t

\* Whether the token's text starts with "[": the bracket, and the header
StartsWithBracket(t) == t \in {"LB", "HDR"}

\* str.replace(old, new) for a one-token literal: every occurrence
ReplaceAll(t, old, new) == [i \in DOMAIN t |-> IF t[i] = old THEN new ELSE t[i]]

---------------------------------------------------------------------------
(* The Manifest Normalizer's text rewriting                                *)

\* normalize_rust_features: the two chained str.replace calls
FeaturesText(text) ==
    ReplaceAll(ReplaceAll(text, "STO_ON", "STO_OFF"), "CT_RLIB", "CT_BOTH")

\* re.search(r"\[profile\.release\](.*?)(\n\[|$)", text, re.DOTALL): the
\* leftmost header; group 1 is the shortest text after it that is followed by
\* a line break and "[", by the end of the text, or by the text's last line
\* break ("$" without re.MULTILINE).  at: the header's index, 0 for no match;
\* from..to: group 1.
ProfileMatch(text) ==
    LET hdrs == {i \in DOMAIN text : text[i] = "HDR"}
        n    == Len(text)
    IN  IF hdrs = {} THEN [at |-> 0, from |-> 0, to |-> 0]
        ELSE LET h    == Min(hdrs)
                 ends == {j \in (h + 1)..(n + 1) :
                            \/ j = n + 1
                            \/ j = n /\ text[j] = "NL"
                            \/ j < n /\ text[j] = "NL" /\ StartsWithBracket(text[j + 1])}
             IN  [at |-> h, from |-> h + 1, to |-> Min(ends) - 1]

\* The end of the line that holds index i: the index of its last token
LineEnd(b, i) ==
    LET nls == {j \in i..Len(b) : b[j] = "NL"}
    IN  IF nls = {} THEN Len(b) ELSE Min(nls) - 1

\* ensure_setting's pattern, rf"^{re.escape(key)}\\s*=.*$" under re.MULTILINE,
\* tried at index i.  In the raw string the two backslashes are the regex for
\* one literal backslash, and "s*" is then any number of the letter s: the
\* pattern is the key at the start of a line, a backslash, letters s, "=".
SettingMatchAt(b, i, key) ==
    /\ i = 1 \/ b[i - 1] = "NL"
    /\ b[i] = key
    /\ i + 1 <= Len(b) /\ b[i + 1] = "BS"
    /\ LET rest == {j \in (i + 2)..Len(b) : b[j] # "s"}
       IN  rest # {} /\ b[Min(rest)] = "EQ"

\* ensure_setting(block_text, key, value), lines 179-183
EnsureSetting(b, key, value) ==
    LET hits == {i \in DOMAIN b : SettingMatchAt(b, i, key)}
    IN  IF hits # {}
        THEN LET i == Min(hits)
             IN  Slice(b, 1, i - 1) \o <<key, "SP", "EQ", "SP", value>>
                   \o Slice(b, LineEnd(b, i) + 1, Len(b))
        ELSE RStrip(b) \o <<"NL", key, "SP", "EQ", "SP", value, "NL">>

\* configure_rust_release_profile's new text, lines 166-192
ProfileText(text) ==
    LET m       == ProfileMatch(text)
        found   == m.at # 0
        prefix  == IF found THEN Slice(text, 1, m.at - 1)
                   ELSE RStrip(text) \o <<"NL", "NL", "HDR", "NL">>
        content == IF found THEN Slice(text, m.from, m.to) ELSE << >>
        suffix  == IF found THEN Slice(text, m.to + 1, Len(text)) ELSE <<"NL">>
        updated_content ==
            EnsureSetting(EnsureSetting(content, "lto", "thin"), "cgu", "1")
    IN  IF found THEN prefix \o <<"HDR">> \o updated_content \o suffix
        ELSE prefix \o updated_content \o suffix

\* The Manifest Normalizer: main's lines 507-508 on the manifest's text
NormalizeText(text) == ProfileText(FeaturesText(text))

---------------------------------------------------------------------------
(* The filesystem: a function from the paths that exist to their nodes.    *)
(* A path is the sequence of its components from the root <<"w">>.         *)

DirNode == [kind |-> "dir", data |-> << >>]

FileNode(c) == [kind |-> "file", data |-> <<c>>]

LinkNode(target) == [kind |-> "link", data |-> target]

\* How many symbolic links one resolution follows
MaxLinks == 3

\* Path.name
Name(p) == p[Len(p)]

\* Path.parent
Parent(p) == SubSeq(p, 1, Len(p) - 1)

\* Path.resolve(): the symbolic links of every component followed, left to right
RECURSIVE ResolveFrom(_, _, _, _)
ResolveFrom(f, done, rest, fuel) ==
    IF rest = << >> THEN done
    ELSE LET cand == Append(done, Head(rest))
         IN  IF fuel > 0 /\ cand \in DOMAIN f /\ f[cand].kind = "link"
             THEN ResolveFrom(f, << >>, f[cand].data \o Tail(rest), fuel - 1)
             ELSE ResolveFrom(f, cand, Tail(rest), fuel)

Resolve(f, p) == ResolveFrom(f, << >>, p, MaxLinks)

\* Path.exists(), Path.is_dir(), Path.is_file(): these follow links
Exists(f, p) == Resolve(f, p) \in DOMAIN f

IsDir(f, p) == Exists(f, p) /\ f[Resolve(f, p)].kind = "dir"

IsFile(f, p) == Exists(f, p) /\ f[Resolve(f, p)].kind = "file"

\* Path.is_symlink(): the entry itself
IsSymlink(f, p) == p \in DOMAIN f /\ f[p].kind = "link"

\* Path.iterdir(): the entries of directory d
Children(f, d) == {p \in DOMAIN f : Len(p) = Len(d) + 1 /\ IsPrefix(d, p)}

\* Path.unlink()
Unlink(f, p) == [q \in DOMAIN f \ {p} |-> f[q]]

\* A variant of RemoveSubtree: what lies below p is removed and p itself is
\* left, as by the walk without its last rmdir
RemoveBelow(f, p) == [q \in {r \in DOMAIN f : r = p \/ ~IsPrefix(p, r)} |-> f[q]]

\* shutil.rmtree(p), and the bottom-up walk of remove_tree: p and all below it
RemoveSubtree(f, p) == [q \in {r \in DOMAIN f : ~IsPrefix(p, r)} |-> f[q]]

\* Path.mkdir(parents=True, exist_ok=True)
Mkdirs(f, p) ==
    LET new == {SubSeq(p, 1, n) : n \in 1..Len(p)} \ DOMAIN f
    IN  [q \in DOMAIN f \cup new |-> IF q \in DOMAIN f THEN f[q] ELSE DirNode]

\* A file written at p with content data (shutil.copy2, Path.write_text, a
\* tool's output)
WriteFile(f, p, data) ==
    [q \in DOMAIN f \cup {p} |->
        IF q = p THEN [kind |-> "file", data |-> data] ELSE f[q]]

\* The part of f at and below p
Subtree(f, p) == [q \in {r \in DOMAIN f : IsPrefix(p, r)} |-> f[q]]

\* The part of f outside p
Outside(f, p) == [q \in {r \in DOMAIN f : ~IsPrefix(p, r)} |-> f[q]]

\* The tree t (relative paths -> nodes) placed under directory d
Graft(f, d, t) ==
    LET at == {d \o r : r \in DOMAIN t}
    IN  [q \in DOMAIN f \cup at |->
            IF q \in at THEN t[SubSeq(q, Len(d) + 1, Len(q))] ELSE f[q]]

---------------------------------------------------------------------------
(* The program's constants and the places it names                         *)

\* A variant of ALLOWED_ROOT_ENTRIES: the ignore-file left out
ALLOWED_ROOT_ENTRIES_without_ignore_file == {".git"}

ALLOWED_ROOT_ENTRIES == {".git", ".gitignore"}

IOS_MIN_VERSION == "15.0"

MACOS_MIN_VERSION == "14.0"

\* remove_tree's range(3)
RmtreeAttempts == 3

\* build_xcframework's rust_targets: (target, features, sdk, min_version)
rust_targets ==
    << <<"aarch64-apple-ios", "ios", "iphoneos", IOS_MIN_VERSION>>,
       <<"aarch64-apple-ios-sim", "ios", "iphonesimulator", IOS_MIN_VERSION>>,
       <<"x86_64-apple-ios", "ios", "iphonesimulator", IOS_MIN_VERSION>>,
       <<"aarch64-apple-darwin", "ios", "macosx", MACOS_MIN_VERSION>>,
       <<"x86_64-apple-darwin", "ios", "macosx", MACOS_MIN_VERSION>> >>

\* build_xcframework's five build_for_arch calls: (arch, triple, sdk, min_version)
arch_builds ==
    << <<"arm64", "aarch64-apple-ios", "iphoneos", IOS_MIN_VERSION>>,
       <<"arm64", "aarch64-apple-ios-sim", "iphonesimulator", IOS_MIN_VERSION>>,
       <<"x86_64", "x86_64-apple-ios", "iphonesimulator", IOS_MIN_VERSION>>,
       <<"arm64", "aarch64-apple-darwin", "macosx", MACOS_MIN_VERSION>>,
       <<"x86_64", "x86_64-apple-darwin", "macosx", MACOS_MIN_VERSION>> >>

\* ROOT_DIR and the inputs under it; they lie outside the modelled filesystem
\* and are named only in command lines
ROOT_DIR == <<"brave-core">>

TEMPLATES_DIR == ROOT_DIR \o <<"spm", "templates", "swift-brave">>

PATCHES_DIR == ROOT_DIR \o <<"spm", "patches">>

cxxbridge_manifest ==
    ROOT_DIR \o <<"tools", "crates", "vendor", "cxxbridge-cmd", "Cargo.toml">>

core_include(d) == d \o <<"Sources", "BraveAdblockCore", "include">>

core_src_dir(d) == d \o <<"Sources", "BraveAdblockCore", "src">>

core_src(d) == core_src_dir(d) \o <<"AdblockEngine.mm">>

rust_dst(d) == d \o <<"Sources", "BraveAdblockRust">>

cargo_toml(d) == rust_dst(d) \o <<"Cargo.toml">>

lib_rs(d) == rust_dst(d) \o <<"src", "lib.rs">>

build_dir(d) == d \o <<"Build">>

xcframework_path(d) == d \o <<"Binary", "BraveAdblockCore.xcframework">>

---------------------------------------------------------------------------
(* The inputs of a run                                                     *)

EmptyTree == [q \in {} |-> DirNode]

\* One entry of a tree
At(p, node) == [q \in {p} |-> node]

\* The union of two trees with disjoint paths
Plus(t, u) == [q \in DOMAIN t \cup DOMAIN u |-> IF q \in DOMAIN t THEN t[q] ELSE u[q]]

\* The directory the run is meant for
TheDest == <<"w", "swift-brave">>

\* What surrounds it: a directory of another name, a link to the destination,
\* a link named swift-brave to that other directory, a file named swift-brave,
\* and a directory a link in the destination may point to
BaseWorld ==
    Plus(At(<<"w">>, DirNode),
    Plus(At(TheDest, DirNode),
    Plus(At(<<"w", "other">>, DirNode),
    Plus(At(<<"w", "other", "keep">>, FileNode("keep")),
    Plus(At(<<"w", "lnk">>, LinkNode(TheDest)),
    Plus(At(<<"w", "alias">>, DirNode),
    Plus(At(<<"w", "alias", "swift-brave">>, LinkNode(<<"w", "other">>)),
    Plus(At(<<"w", "f">>, DirNode),
    Plus(At(<<"w", "f", "swift-brave">>, FileNode("plain")),
    Plus(At(<<"w", "ext">>, DirNode),
         At(<<"w", "ext", "data">>, FileNode("extdata"))))))))))))

\* The values of the command line's swift_brave_path
PathArgs ==
    {TheDest, <<"w", "lnk">>, <<"w", "other">>, <<"w", "alias", "swift-brave">>,
     <<"w", "f", "swift-brave">>, <<"w", "missing", "swift-brave">>}

\* The destination before a run, relative to it: version-control metadata, an
\* ignore-file, a file a template also holds, a foreign entry (a file, a
\* directory, a link into the destination, a link out of it), and what an
\* earlier run left
GitPart(on) ==
    IF on THEN Plus(At(<<".git">>, DirNode),
                    At(<<".git", "config">>, FileNode("gitcfg")))
    ELSE EmptyTree

IgnorePart(on) == IF on THEN At(<<".gitignore">>, FileNode("ownG")) ELSE EmptyTree

OldPart(on) == IF on THEN At(<<"A.txt">>, FileNode("oldA")) ELSE EmptyTree

JunkKinds == {"none", "file", "dir", "link_in", "link_out"}

JunkPart(j) ==
    CASE j = "file" -> At(<<"junk">>, FileNode("junk"))
      [] j = "dir" -> Plus(At(<<"junk">>, DirNode), At(<<"junk", "x">>, FileNode("x")))
      [] j = "link_in" -> At(<<"junk">>, LinkNode(TheDest \o <<".git">>))
      [] j = "link_out" -> At(<<"junk">>, LinkNode(<<"w", "ext">>))
      [] OTHER -> EmptyTree

PrevPart(on) ==
    IF on
    THEN Plus(At(<<"Sources">>, DirNode),
         Plus(At(<<"Sources", "BraveAdblockRust">>, DirNode),
         Plus(At(<<"Sources", "BraveAdblockRust", "target">>, DirNode),
         Plus(At(<<"Build">>, DirNode),
         Plus(At(<<"Binary">>, DirNode),
         Plus(At(<<"Binary", "BraveAdblockCore.xcframework">>, DirNode),
              At(<<"Binary", "BraveAdblockCore.xcframework", "Info.plist">>,
                 FileNode("oldplist"))))))))
    ELSE EmptyTree

DestTree(git, ign, old, junk, prev) ==
    Plus(GitPart(git), Plus(IgnorePart(ign), Plus(OldPart(old),
         Plus(JunkPart(junk), PrevPart(prev)))))

\* The template trees, relative to TEMPLATES_DIR
TemplateIds == {"tA", "tG", "tB"}

TemplateTree(id) ==
    CASE id = "tA" -> At(<<"A.txt">>, FileNode("tplA"))
      [] id = "tG" ->
            Plus(At(<<"A.txt">>, FileNode("tplA")),
            Plus(At(<<".gitignore">>, FileNode("tplG")),
            Plus(At(<<"Sources">>, DirNode),
            Plus(At(<<"Sources", "BraveAdblockRust">>, DirNode),
                 At(<<"Sources", "BraveAdblockRust", "stale">>, FileNode("tplS"))))))
      [] id = "tB" ->
            Plus(At(<<"A.txt">>, FileNode("tplA")),
            Plus(At(<<"Build">>, DirNode),
            Plus(At(<<"Build", "old">>, FileNode("tplOld")),
            Plus(At(<<"Binary">>, DirNode),
            Plus(At(<<"Binary", "BraveAdblockCore.xcframework">>, DirNode),
                 At(<<"Binary", "BraveAdblockCore.xcframework", "Info.plist">>,
                    FileNode("tplPlist")))))))
      [] OTHER -> EmptyTree

\* The manifest of the Rust sources as the repository holds it
SourceManifest ==
    <<"LB", "W", "NL", "CT_RLIB", "NL", "LB", "W", "NL", "STO_ON", "NL">>

\* components/brave_shields/core/browser/adblock/rs, relative to itself
RustTree(withManifest) ==
    Plus(At(<< >>, DirNode),
    Plus(At(<<"src">>, DirNode),
    Plus(At(<<"src", "lib.rs">>, FileNode("librs")),
         IF withManifest
         THEN At(<<"Cargo.toml">>, [kind |-> "file", data |-> SourceManifest])
         ELSE EmptyTree)))

\* The inputs outside the destination:
\*   tpl: TEMPLATES_DIR, "missing" or a template;
\*   src: the fixed sources, "ok", "nohdr" (no adblock_engine.h), "norust"
\*        (no rs directory) or "nomanifest" (rs without Cargo.toml);
\*   patches: how many *.patch files PATCHES_DIR holds;
\*   cxxbridge: whether the vendored cxxbridge-cmd manifest exists;
\*   lock: the Cargo.lock that cargo generate-lockfile leaves
MaxPatches == 3

LockIds == {"rmp", "normp", "nolock"}

Worlds ==
    [tpl : TemplateIds \cup {"missing"}, src : {"ok", "nohdr", "norust", "nomanifest"},
     patches : 0..MaxPatches, cxxbridge : BOOLEAN, lock : LockIds]

\* The environments a run may start in: nothing but PATH set; RUSTFLAGS set
\* to a flag, to a flag between blanks, to the empty string, to the
\* dead-strip flag itself; the SDK and both deployment targets set
AmbientIds == {"bare", "flags", "padded", "empty", "dead", "xcode"}

AmbientOf(id) ==
    [v \in {"PATH", "SDKROOT", "CC", "CXX", "AR", "RANLIB", "IPHONEOS_DEPLOYMENT_TARGET",
            "MACOSX_DEPLOYMENT_TARGET", "RUSTFLAGS"} |->
        CASE v = "PATH" -> <<"/usr/bin">>
          [] v = "RUSTFLAGS" /\ id = "flags" -> <<"-Cfoo">>
          [] v = "RUSTFLAGS" /\ id = "padded" -> <<"SP", "-Cfoo", "SP">>
          [] v = "RUSTFLAGS" /\ id = "empty" -> << >>
          [] v = "RUSTFLAGS" /\ id = "dead" -> <<"DS">>
          [] v = "SDKROOT" /\ id = "xcode" -> <<"/ambient/sdk">>
          [] v = "IPHONEOS_DEPLOYMENT_TARGET" /\ id = "xcode" -> <<"12.0">>
          [] v = "MACOSX_DEPLOYMENT_TARGET" /\ id = "xcode" -> <<"13.0">>
          [] OTHER -> <<"unset">>]

\* PATCHES_DIR's entries: the patch files, named so that they sort by number,
\* and a file that is no patch
PatchesDirListing(n) ==
    {[n |-> i, suffix |-> ".patch"] : i \in 1..n} \cup {[n |-> 0, suffix |-> ".md"]}

\* Cargo.lock's lines: a line is its leading blanks, a key and a value
LockLines(id) ==
    CASE id = "rmp" ->
            << [pad |-> 0, key |-> "name", val |-> "adblock"],
               [pad |-> 0, key |-> "name", val |-> "rmp-serde"],
               [pad |-> 1, key |-> "name", val |-> "rmp"],
               [pad |-> 0, key |-> "version", val |-> "rmp"] >>
      [] id = "normp" ->
            << [pad |-> 0, key |-> "name", val |-> "adblock"],
               [pad |-> 0, key |-> "name", val |-> "rmp-serde"],
               [pad |-> 0, key |-> "version", val |-> "rmp"] >>
      [] OTHER -> << >>

---------------------------------------------------------------------------
(* External commands                                                       *)

\* A command line: the tool, its options, the paths it reads, the path it
\* writes and its working directory, with the environment the process gets:
\* that of this process unless env= is given
Cmd(tool, opts, ins, out, cwd) ==
    [tool |-> tool, opts |-> opts, ins |-> ins, out |-> out, cwd |-> cwd,
     env |-> environ]

\* The exit statuses a tool may return: success, and one failure
ReturnCodes == {0, 2}

LogEvent(c) == [k |-> "log", c |-> c, rc |-> 0]

ExecEvent(c, rc) == [k |-> "exec", c |-> c, rc |-> rc]

PrintEvent(what) ==
    [k |-> "print", c |-> Cmd(what, << >>, << >>, << >>, << >>), rc |-> 0]

\* run(cmd): print the command, then start it and wait (lines 34-36)
RunEvents(c, rc) == <<LogEvent(c), ExecEvent(c, rc)>>

\* subprocess.check_output(cmd) of xcrun_sdk_path and xcrun_find (lines 199, 203)
CheckOutputEvents(c, rc) == <<ExecEvent(c, rc)>>

\* A variant of RunRaises: subprocess.run without check=True, which returns
\* whatever the status
RunNeverRaises(rc) == FALSE

\* subprocess.run(..., check=True) raises CalledProcessError on this status
RunRaises(rc) == rc # 0

\* subprocess.check_output raises CalledProcessError on this status
CheckOutputRaises(rc) == rc # 0

\* One call of a plan: a command and the helper that starts it
ViaRun(c) == [c |-> c, via |-> "run"]

ViaCheckOutput(c) == [c |-> c, via |-> "check_output"]

CallEvents(call, rc) ==
    IF call.via = "run" THEN RunEvents(call.c, rc) ELSE CheckOutputEvents(call.c, rc)

CallRaises(call, rc) ==
    IF call.via = "run" THEN RunRaises(rc) ELSE CheckOutputRaises(rc)

\* The statuses the calls of a plan may return: at most one of them fails
Outcomes(plan) ==
    {[i \in 1..Len(plan) |-> IF i = f THEN rc ELSE 0] :
        f \in 0..Len(plan), rc \in ReturnCodes \ {0}}

\* The first call of the plan that raises, 0 when none does
Raised(plan, rcs) ==
    LET bad == {i \in 1..Len(plan) : CallRaises(plan[i], rcs[i])}
    IN  IF bad = {} THEN 0 ELSE Min(bad)

\* The calls made: all of them, or those up to the one that raises
Made(plan, rcs) == IF Raised(plan, rcs) = 0 THEN Len(plan) ELSE Raised(plan, rcs)

\* What running the plan in order adds to the trace
PlanEvents(plan, rcs) ==
    Flatten([i \in 1..Made(plan, rcs) |-> CallEvents(plan[i], rcs[i])])

\* The exception a raising plan ends with
CalledProcessError(plan, rcs) ==
    [type |-> "CalledProcessError", rc |-> rcs[Raised(plan, rcs)],
     tool |-> plan[Raised(plan, rcs)].c.tool]

NoError == [type |-> "none", rc |-> 0, tool |-> ""]

SystemExitError(msg) == [type |-> "SystemExit", rc |-> 0, tool |-> msg]

OSErrorOf(what) == [type |-> "OSError", rc |-> 0, tool |-> what]

\* The interpreter's exit status for an uncaught exception and for
\* SystemExit with a message
ExitStatusOf(err) == IF err.type = "none" THEN 0 ELSE 1

---------------------------------------------------------------------------
(* main, lines 499-517, and the stages it calls                            *)

IdleRm == [path |-> << >>, tries |-> 0]

NoStep == [op |-> "", i |-> 0]

\* An uncaught exception ends the process
Fail(err) ==
    /\ pc' = "failed"
    /\ error' = err
    /\ exitCode' = ExitStatusOf(err)

Continue(next) ==
    /\ pc' = next
    /\ UNCHANGED <<error, exitCode>>

Enter(stage) == stages' = Append(stages, stage)

\* A variant of NameAccepted: the name of the path as given is tested, not
\* that of the resolved path
NameOfArgumentAccepted(resolved) == Name(args.swift_brave_path) = "swift-brave"

\* ensure_swift_brave_dir's test of the name, line 51
NameAccepted(resolved) == Name(resolved) = "swift-brave"

\* ensure_swift_brave_dir's test of the directory, line 53
DirAccepted(f, resolved) == Exists(f, resolved) /\ IsDir(f, resolved)

\* ensure_swift_brave_dir, lines 49-55, as main calls it on line 501
EnsureSwiftBraveDir ==
    /\ pc = "validate"
    /\ Enter("ensure_swift_brave_dir")
    /\ LET resolved == Resolve(fs, args.swift_brave_path)
       IN  IF ~NameAccepted(resolved)
           THEN Fail(SystemExitError("not named swift-brave")) /\ dest' = dest
           ELSE IF ~DirAccepted(fs, resolved)
           THEN Fail(SystemExitError("not a directory")) /\ dest' = dest
           ELSE Continue("clean") /\ dest' = resolved
    /\ UNCHANGED <<args, fs, fs0, events, todo, rm, world, environ, step, round, snap>>

\* A variant of is_within: the paths are compared as they are written,
\* without resolving them
is_within_unresolved(f, root, child) == IsPrefix(root, child)

\* A variant of is_within: the root is looked for under the child
is_within_reversed(f, root, child) == IsPrefix(Resolve(f, child), Resolve(f, root))

\* is_within, lines 58-63
is_within(f, root, child) == IsPrefix(Resolve(f, root), Resolve(f, child))

\* clean_destination, line 67: dest.iterdir() lists the entries
CleanDestination ==
    /\ pc = "clean"
    /\ Enter("clean_destination")
    /\ todo' = Children(fs, dest)
    /\ Continue("clean_iter")
    /\ UNCHANGED <<args, dest, fs, fs0, events, rm, world, environ, step, round, snap>>

\* clean_destination, lines 68-75: one entry, in whatever order the listing has
CleanEntry ==
    /\ pc = "clean_iter"
    /\ \E entry \in todo :
         /\ todo' = todo \ {entry}
         /\ IF Name(entry) \in ALLOWED_ROOT_ENTRIES
            THEN Continue("clean_iter") /\ UNCHANGED <<fs, rm>>
            ELSE IF ~is_within(fs, dest, entry)
            THEN Fail(SystemExitError("outside of destination")) /\ UNCHANGED <<fs, rm>>
            ELSE IF IsSymlink(fs, entry) \/ IsFile(fs, entry)
            THEN Continue("clean_iter") /\ fs' = Unlink(fs, entry) /\ UNCHANGED rm
            ELSE /\ Continue("remove_tree")
                 /\ rm' = [path |-> entry, tries |-> 0]
                 /\ UNCHANGED fs
    /\ UNCHANGED <<args, dest, fs0, events, stages, world, environ, step, round, snap>>

\* clean_destination returns once the listing is exhausted
CleanReturn ==
    /\ pc = "clean_iter"
    /\ todo = {}
    /\ Continue("templates")
    /\ UNCHANGED <<args, dest, fs, fs0, events, stages, todo, rm, world, environ, step,
                   round, snap>>

\* remove_tree, lines 80-88: one pass of the loop.  shutil.rmtree removes the
\* tree, or fails with ENOTEMPTY (retried after a sleep), or fails otherwise
\* (raised); a failed pass is taken to leave the tree as it was
RemoveTreeAttempt ==
    /\ pc = "remove_tree"
    /\ rm.tries < RmtreeAttempts
    /\ \/ /\ fs' = RemoveSubtree(fs, rm.path)
          /\ rm' = IdleRm
          /\ Continue("clean_iter")
       \/ /\ rm' = [rm EXCEPT !.tries = @ + 1]
          /\ Continue("remove_tree")
          /\ UNCHANGED fs
       \/ /\ Fail(OSErrorOf("rmtree"))
          /\ UNCHANGED <<fs, rm>>
    /\ UNCHANGED <<args, dest, fs0, events, stages, todo, world, environ, step, round, snap>>

\* remove_tree, lines 89-95: after the last ENOTEMPTY, the bottom-up walk,
\* which removes the tree or raises
RemoveTreeFallback ==
    /\ pc = "remove_tree"
    /\ rm.tries = RmtreeAttempts
    /\ \/ /\ fs' = RemoveSubtree(fs, rm.path)
          /\ rm' = IdleRm
          /\ Continue("clean_iter")
       \/ /\ Fail(OSErrorOf("walk"))
          /\ UNCHANGED <<fs, rm>>
    /\ UNCHANGED <<args, dest, fs0, events, stages, todo, world, environ, step, round, snap>>

\* copy_templates, line 104: an ignore-file already there is left alone
KeepsTarget(f, target) == Name(target) = ".gitignore" /\ Exists(f, target)

\* copy_templates, lines 101-110: every item of the template tree, parents first
RECURSIVE CopyItems(_, _, _, _)
CopyItems(f, d, t, items) ==
    IF items = {} THEN f
    ELSE LET relative == CHOOSE r \in items : \A q \in items : Len(r) <= Len(q)
             target   == d \o relative
             g == IF KeepsTarget(f, target) THEN f
                  ELSE IF t[relative].kind = "dir" THEN Mkdirs(f, target)
                  ELSE WriteFile(Mkdirs(f, Parent(target)), target, t[relative].data)
         IN  CopyItems(g, d, t, items \ {relative})

\* copy_templates, lines 98-110
CopyTemplates ==
    /\ pc = "templates"
    /\ Enter("copy_templates")
    /\ IF world.tpl = "missing"
       THEN Fail(SystemExitError("Missing templates")) /\ UNCHANGED fs
       ELSE /\ fs' = CopyItems(fs, dest, TemplateTree(world.tpl),
                               DOMAIN TemplateTree(world.tpl))
            /\ Continue("sources")
    /\ UNCHANGED <<args, dest, fs0, events, todo, rm, world, environ, step, round, snap>>

\* copy_sources, lines 113-133: the two directories, the two files, then the
\* Rust directory removed and copied afresh.  A source that is missing makes
\* its copy raise, with the earlier steps done
CopySources ==
    /\ pc = "sources"
    /\ Enter("copy_sources")
    /\ LET f1 == Mkdirs(Mkdirs(fs, core_include(dest)), core_src_dir(dest))
           f2 == WriteFile(f1, core_include(dest) \o <<"AdblockEngine.h">>, <<"hdr">>)
           f3 == WriteFile(f2, core_src(dest), <<"mm">>)
           f4 == IF Exists(f3, rust_dst(dest))
                 THEN RemoveSubtree(f3, rust_dst(dest)) ELSE f3
           f5 == Graft(f4, rust_dst(dest), RustTree(world.src # "nomanifest"))
       IN  CASE world.src = "nohdr" -> fs' = f1 /\ Fail(OSErrorOf("copy2"))
             [] world.src = "norust" -> fs' = f4 /\ Fail(OSErrorOf("copytree"))
             [] OTHER -> fs' = f5 /\ Continue("patches")
    /\ UNCHANGED <<args, dest, fs0, events, todo, rm, world, environ, step, round, snap>>

\* A variant of SortedByName: the files in the order the directory happens
\* to list them, here the last name first
RECURSIVE InListingOrder(_)
InListingOrder(files) ==
    IF files = {} THEN << >>
    ELSE LET first == CHOOSE x \in files : \A y \in files : x.n >= y.n
         IN  <<first>> \o InListingOrder(files \ {first})

\* sorted(...), line 137: the files in the order of their names
RECURSIVE SortedByName(_)
SortedByName(files) ==
    IF files = {} THEN << >>
    ELSE LET first == CHOOSE x \in files : \A y \in files : x.n <= y.n
         IN  <<first>> \o SortedByName(files \ {first})

\* PATCHES_DIR.glob("*.patch"), line 137
GlobPatches(listing) == {x \in listing : x.suffix = ".patch"}

patch_files(w) == SortedByName(GlobPatches(PatchesDirListing(w.patches)))

PatchPath(x) == PATCHES_DIR \o <<ToString(x.n) \o x.suffix>>

GitApply(patch, d) ==
    Cmd("git", <<"apply", "--whitespace=nowarn">>, <<PatchPath(patch)>>, << >>, d)

\* What the tools that succeeded have written: a call that returns 0 leaves
\* its output, a file (xcodebuild: the bundle directory).  What a patch
\* changes in the sources is not modelled.
RECURSIVE Written(_, _, _, _)
Written(f, plan, rcs, n) ==
    IF n = 0 THEN f
    ELSE LET g == Written(f, plan, rcs, n - 1)
             c == plan[n].c
         IN  IF rcs[n] # 0 \/ c.out = << >> THEN g
             ELSE IF c.tool = "xcodebuild" THEN Mkdirs(g, c.out)
             ELSE WriteFile(Mkdirs(g, Parent(c.out)), c.out, <<c.tool>>)

\* A variant of Outputs: when a call raises, the scratch directory is
\* removed on the way out
OutputsCleanedOnAbort(f, plan, rcs) ==
    IF Raised(plan, rcs) # 0
    THEN RemoveSubtree(Written(f, plan, rcs, Made(plan, rcs)), build_dir(dest))
    ELSE Written(f, plan, rcs, Made(plan, rcs))

Outputs(f, plan, rcs) == Written(f, plan, rcs, Made(plan, rcs))

\* The calls of a plan made in order until one raises: the trace grows, the
\* outputs appear, and the exception, if any, ends the run
Calls(plan, rcs, f, next) ==
    /\ events' = events \o PlanEvents(plan, rcs)
    /\ fs' = Outputs(f, plan, rcs)
    /\ IF Raised(plan, rcs) # 0
       THEN Fail(CalledProcessError(plan, rcs)) /\ UNCHANGED step
       ELSE next

\* apply_patches, lines 137-139
ApplyPatches ==
    /\ pc = "patches"
    /\ Enter("apply_patches")
    /\ IF patch_files(world) = << >>
       THEN Fail(SystemExitError("No patches found")) /\ UNCHANGED step
       ELSE Continue("patch_iter") /\ step' = [op |-> "patch", i |-> 1]
    /\ UNCHANGED <<args, dest, fs, fs0, events, todo, rm, world, environ, round, snap>>

\* apply_patches, lines 140-141: the next patch
ApplyPatch ==
    /\ pc = "patch_iter"
    /\ LET plan == <<ViaRun(GitApply(patch_files(world)[step.i], dest))>>
       IN  \E rcs \in Outcomes(plan) :
             Calls(plan, rcs, fs,
                   IF step.i < Len(patch_files(world))
                   THEN Continue("patch_iter") /\ step' = [step EXCEPT !.i = @ + 1]
                   ELSE Continue("features") /\ step' = NoStep)
    /\ UNCHANGED <<args, dest, fs0, stages, todo, rm, world, environ, round, snap>>

\* The manifest's text
ManifestText(f, d) == f[cargo_toml(d)].data

\* normalize_rust_features, lines 144-158
NormalizeRustFeatures ==
    /\ pc = "features"
    /\ Enter("normalize_rust_features")
    /\ IF ~Exists(fs, cargo_toml(dest))
       THEN Fail(SystemExitError("Missing Cargo.toml")) /\ UNCHANGED fs
       ELSE LET text    == ManifestText(fs, dest)
                updated == FeaturesText(text)
            IN  /\ fs' = IF text = updated THEN fs
                         ELSE WriteFile(fs, cargo_toml(dest), updated)
                /\ Continue("profile")
    /\ UNCHANGED <<args, dest, fs0, events, todo, rm, world, environ, step, round, snap>>

\* A variant of AfterNormalize: the tests are run only after a build
AfterNormalizeTestsOnlyBuilt(a) == IF ~a.skip_build THEN "build" ELSE "finish"

\* main, lines 510-514: what follows the manifest normalizer
AfterNormalize(a) ==
    IF ~a.skip_build THEN "build" ELSE IF ~a.skip_tests THEN "tests" ELSE "finish"

\* configure_rust_release_profile, lines 161-195
ConfigureRustReleaseProfile ==
    /\ pc = "profile"
    /\ Enter("configure_rust_release_profile")
    /\ IF ~Exists(fs, cargo_toml(dest))
       THEN Fail(SystemExitError("Missing Cargo.toml")) /\ UNCHANGED fs
       ELSE LET text    == ManifestText(fs, dest)
                updated == ProfileText(text)
            IN  /\ fs' = IF updated # text
                         THEN WriteFile(fs, cargo_toml(dest), updated) ELSE fs
                /\ Continue(AfterNormalize(args))
    /\ UNCHANGED <<args, dest, fs0, events, todo, rm, world, environ, step, round, snap>>

---------------------------------------------------------------------------
(* build_xcframework, lines 302-421                                        *)

rust_dir(d) == rust_dst(d)

lock_path(d) == rust_dir(d) \o <<"Cargo.lock">>

include_dir(d) == build_dir(d) \o <<"include">>

adblock_include_dir(d) == include_dir(d) \o <<"adblock">>

rust_include_dir(d) == include_dir(d) \o <<"rust">>

bridge_source(d) == build_dir(d) \o <<"adblock-cxx.cc">>

libs_dir(d) == build_dir(d) \o <<"libs">>

\* A variant of rust_lib_path: the library of the host's target directory,
\* whatever the triple
rust_lib_path_of_host(d, triple) ==
    rust_dir(d) \o <<"target", "release", "libadblock_cxx.a">>

\* rust_lib_path, lines 351-352
rust_lib_path(d, triple) ==
    rust_dir(d) \o <<"target", triple, "release", "libadblock_cxx.a">>

\* A variant of obj_dir: the directory named after the SDK alone
obj_dir_of_sdk(d, sdk, arch) == libs_dir(d) \o <<"obj-" \o sdk>>

\* build_for_arch's obj_dir, line 355
obj_dir(d, sdk, arch) == libs_dir(d) \o <<"obj-" \o sdk \o "-" \o arch>>

\* build_for_arch's lib_path, line 375, of the i-th call
lib_path(d, i) ==
    obj_dir(d, arch_builds[i][3], arch_builds[i][1]) \o <<"libBraveAdblockCore.a">>

\* A variant of universal_merges: the desktop library made of mac_arm64 twice
universal_merges_arm64_twice ==
    << [name |-> "ios", inputs |-> <<1>>],
       [name |-> "ios-sim", inputs |-> <<2, 3>>],
       [name |-> "macos", inputs |-> <<4, 4>>] >>

\* lines 379-395: the universal libraries and the build_for_arch results
\* (ios_arm64 = 1, ios_sim_arm64 = 2, ios_sim_x86 = 3, mac_arm64 = 4,
\* mac_x86 = 5) each is made of
universal_merges ==
    << [name |-> "ios", inputs |-> <<1>>],
       [name |-> "ios-sim", inputs |-> <<2, 3>>],
       [name |-> "macos", inputs |-> <<4, 5>>] >>

universal_path(d, m) == libs_dir(d) \o <<universal_merges[m].name, "libBraveAdblockCore.a">>

\* A variant of cargo_lock_has_package: a line counts when it names a package
\* whose name starts with the name looked for
cargo_lock_has_package_prefixed(f, path, name) ==
    /\ path \in DOMAIN f
    /\ LET lines == LockLines(f[path].data[1])
       IN  \E i \in DOMAIN lines :
               lines[i].key = "name" /\ lines[i].val \in {name, name \o "-serde"}

\* cargo_lock_has_package, lines 39-46: a missing file has no package; a line
\* counts when, stripped, it is name = "<name>"
cargo_lock_has_package(f, path, name) ==
    /\ path \in DOMAIN f
    /\ LET lines == LockLines(f[path].data[1])
       IN  \E i \in DOMAIN lines : lines[i].key = "name" /\ lines[i].val = name

\* str.startswith("iphone") on an SDK's name
StartsWithIphone(sdk) == sdk \in {"iphoneos", "iphonesimulator"}

XcrunSdkPath(sdk) ==
    Cmd("xcrun", <<"--sdk", sdk, "--show-sdk-path">>, << >>, << >>, << >>)

XcrunFind(sdk, tool) == Cmd("xcrun", <<"--sdk", sdk, "-f", tool>>, << >>, << >>, << >>)

\* rust_env_for_sdk, lines 206-221: the five lookups, in order
RustEnvCalls(sdk) ==
    << ViaCheckOutput(XcrunSdkPath(sdk)), ViaCheckOutput(XcrunFind(sdk, "clang")),
       ViaCheckOutput(XcrunFind(sdk, "clang++")), ViaCheckOutput(XcrunFind(sdk, "ar")),
       ViaCheckOutput(XcrunFind(sdk, "ranlib")) >>

\* The environment's variables: those rust_env_for_sdk sets, and one it does not
EnvVars ==
    {"PATH", "SDKROOT", "CC", "CXX", "AR", "RANLIB", "IPHONEOS_DEPLOYMENT_TARGET",
     "MACOSX_DEPLOYMENT_TARGET", "RUSTFLAGS"}

\* The value of a variable that is not set; a value is a sequence of words
\* and blanks ("SP"), "DS" the flag -C link-arg=-dead_strip
Unset == <<"unset">>

\* str.strip()
RECURSIVE LStrip(_)
LStrip(t) == IF t # << >> /\ IsSpace(t[1]) THEN LStrip(Tail(t)) ELSE t

Strip(t) == LStrip(RStrip(t))

\* rust_env_for_sdk, lines 206-221: the environment it returns, made from
\* the process's.  What xcrun prints is named after the query.
rust_env_for_sdk(env0, sdk, min_version) ==
    LET rustflags == IF env0["RUSTFLAGS"] = Unset THEN << >> ELSE env0["RUSTFLAGS"]
    IN  [v \in EnvVars |->
           CASE v = "SDKROOT" -> <<"sdk-path:" \o sdk>>
             [] v = "CC"      -> <<"find:" \o sdk \o ":clang">>
             [] v = "CXX"     -> <<"find:" \o sdk \o ":clang++">>
             [] v = "AR"      -> <<"find:" \o sdk \o ":ar">>
             [] v = "RANLIB"  -> <<"find:" \o sdk \o ":ranlib">>
             [] v = "IPHONEOS_DEPLOYMENT_TARGET" ->
                    IF StartsWithIphone(sdk) THEN <<min_version>> ELSE env0[v]
             [] v = "MACOSX_DEPLOYMENT_TARGET" ->
                    IF StartsWithIphone(sdk) THEN env0[v] ELSE <<min_version>>
             [] v = "RUSTFLAGS" -> Strip(rustflags \o <<"SP", "DS">>)
             [] OTHER -> env0[v]]

\* A variant of EnvironAfterRustEnv: env = os.environ, without the copy, so
\* that what is set for the build is set in the process's environment
EnvironAliased(env0, sdk, min_version) == rust_env_for_sdk(env0, sdk, min_version)

\* rust_env_for_sdk, line 208: os.environ after the call; the variables are
\* set in a copy
EnvironAfterRustEnv(env0, sdk, min_version) == env0

\* cargo_build, lines 224-229
CargoBuildCalls(d, target, features, sdk, min_version) ==
    RustEnvCalls(sdk) \o
    << ViaRun([Cmd("cargo",
                   <<"build", "--release", "--target", target>> \o
                      (IF features # "" THEN <<"--features", features>> ELSE << >>),
                   << >>, rust_lib_path(d, target), rust_dir(d))
               EXCEPT !.env = rust_env_for_sdk(environ, sdk, min_version)]) >>

\* compile_objcxx and compile_cpp, lines 250-255 and 278-283
MinVersionFlag(sdk, min_version) ==
    IF sdk = "iphonesimulator" THEN "-mios-simulator-version-min=" \o min_version
    ELSE IF StartsWithIphone(sdk) THEN "-miphoneos-version-min=" \o min_version
    ELSE "-mmacosx-version-min=" \o min_version

\* compile_objcxx, lines 232-258
CompileObjcxxCalls(source, output, sdk, arch, include_dirs, min_version) ==
    << ViaCheckOutput(XcrunSdkPath(sdk)),
       ViaRun(Cmd("xcrun",
                  <<"--sdk", sdk, "clang++", "-c", "-std=c++17", "-fobjc-arc",
                    "-arch", arch, MinVersionFlag(sdk, min_version)>>,
                  <<source>> \o include_dirs, output, << >>)) >>

\* A variant of CompileCppCalls: the translation unit is generated anew for
\* each compilation
CompileCppCallsRegenerating(source, output, sdk, arch, include_dirs, min_version) ==
    << ViaRun(Cmd("cargo", <<"run", "--quiet", "--", "-i", "rust/cxx.h">>,
                  <<cxxbridge_manifest, lib_rs(dest)>>, source, ROOT_DIR)),
       ViaCheckOutput(XcrunSdkPath(sdk)),
       ViaRun(Cmd("xcrun",
                  <<"--sdk", sdk, "clang++", "-c", "-std=c++17",
                    "-arch", arch, MinVersionFlag(sdk, min_version)>>,
                  <<source>> \o include_dirs, output, << >>)) >>

\* compile_cpp, lines 261-286
CompileCppCalls(source, output, sdk, arch, include_dirs, min_version) ==
    << ViaCheckOutput(XcrunSdkPath(sdk)),
       ViaRun(Cmd("xcrun",
                  <<"--sdk", sdk, "clang++", "-c", "-std=c++17",
                    "-arch", arch, MinVersionFlag(sdk, min_version)>>,
                  <<source>> \o include_dirs, output, << >>)) >>

\* libtool_static, lines 289-292
LibtoolCalls(output, objects) ==
    << ViaRun(Cmd("xcrun", <<"libtool", "-static">>, objects, output, << >>)) >>

\* lipo_create, lines 295-299
LipoCalls(output, inputs) ==
    << ViaRun(Cmd("xcrun", <<"lipo", "-create">>, inputs, output, << >>)) >>

\* build_for_arch, lines 354-377: the calls of its i-th use
BuildForArchCalls(d, i) ==
    LET arch == arch_builds[i][1]
        triple == arch_builds[i][2]
        sdk == arch_builds[i][3]
        min_version == arch_builds[i][4]
        dir == obj_dir(d, sdk, arch)
        obj_path == dir \o <<"AdblockEngine.o">>
        bridge_obj == dir \o <<"adblock_cxx.o">>
    IN  CompileObjcxxCalls(core_src(d), obj_path, sdk, arch,
                           <<core_include(d), include_dir(d)>>, min_version)
        \o CompileCppCalls(bridge_source(d), bridge_obj, sdk, arch,
                           <<include_dir(d)>>, min_version)
        \o LibtoolCalls(lib_path(d, i), <<obj_path, bridge_obj, rust_lib_path(d, triple)>>)

\* generate_cxx_headers' two runs, lines 434-465
CxxHeaderCalls(d) ==
    << ViaRun(Cmd("cargo", <<"run", "--quiet", "--", "--header">>,
                  <<cxxbridge_manifest>>, rust_include_dir(d) \o <<"cxx.h">>, ROOT_DIR)),
       ViaRun(Cmd("cargo", <<"run", "--quiet", "--", "--header", "-i", "rust/cxx.h">>,
                  <<cxxbridge_manifest, lib_rs(d)>>,
                  adblock_include_dir(d) \o <<"lib.rs.h">>, ROOT_DIR)) >>

\* generate_cxx_bridge_source's run, lines 476-491
CxxBridgeCalls(d) ==
    << ViaRun(Cmd("cargo", <<"run", "--quiet", "--", "-i", "rust/cxx.h">>,
                  <<cxxbridge_manifest, lib_rs(d)>>, bridge_source(d), ROOT_DIR)) >>

\* the xcodebuild run, lines 402-419
XcodebuildCalls(d) ==
    << ViaRun(Cmd("xcodebuild", <<"-create-xcframework">>,
                  <<universal_path(d, 1), include_dir(d), universal_path(d, 2),
                    include_dir(d), universal_path(d, 3), include_dir(d)>>,
                  xcframework_path(d), << >>)) >>

\* A variant of ClearBundlePath: a bundle found at the path is left there
KeepBundlePath(f, d) == Mkdirs(f, Parent(xcframework_path(d)))

\* lines 398-400: a bundle found at the output path is removed, and the
\* path's directory made
ClearBundlePath(f, d) ==
    Mkdirs(IF Exists(f, xcframework_path(d))
           THEN RemoveSubtree(f, xcframework_path(d)) ELSE f,
           Parent(xcframework_path(d)))

\* main, lines 513-514
AfterBuild(a) == IF ~a.skip_tests THEN "tests" ELSE "finish"

\* lines 303-310: the scratch directory, emptied
BuildXcframework ==
    /\ pc = "build"
    /\ Enter("build_xcframework")
    /\ fs' = Mkdirs(IF Exists(fs, build_dir(dest))
                    THEN RemoveSubtree(fs, build_dir(dest)) ELSE fs,
                    build_dir(dest))
    /\ Continue("lockfile")
    /\ UNCHANGED <<args, dest, fs0, events, todo, rm, world, environ, step, round, snap>>

\* line 312: cargo generate-lockfile, which leaves Cargo.lock
GenerateLockfile ==
    /\ pc = "lockfile"
    /\ LET plan == <<ViaRun(Cmd("cargo", <<"generate-lockfile">>, << >>, << >>,
                                rust_dir(dest)))>>
       IN  \E rcs \in Outcomes(plan) :
             /\ events' = events \o PlanEvents(plan, rcs)
             /\ IF Raised(plan, rcs) # 0
                THEN Fail(CalledProcessError(plan, rcs)) /\ UNCHANGED fs
                ELSE /\ Continue("pin")
                     /\ fs' = IF rcs[1] = 0 /\ world.lock # "nolock"
                              THEN WriteFile(fs, lock_path(dest), <<world.lock>>)
                              ELSE fs
    /\ UNCHANGED <<args, dest, fs0, stages, todo, rm, world, environ, step, round, snap>>

\* lines 313-317: pin rmp when the lockfile names it
PinRmp ==
    /\ pc = "pin"
    /\ IF cargo_lock_has_package(fs, lock_path(dest), "rmp")
       THEN LET plan == <<ViaRun(Cmd("cargo",
                                     <<"update", "-p", "rmp", "--precise", "0.8.8">>,
                                     << >>, << >>, rust_dir(dest)))>>
            IN  \E rcs \in Outcomes(plan) :
                  Calls(plan, rcs, fs,
                        Continue("cargo") /\ step' = [op |-> "cargo", i |-> 1])
       ELSE /\ events' = Append(events, PrintEvent("# skip: rmp not found"))
            /\ Continue("cargo")
            /\ step' = [op |-> "cargo", i |-> 1]
            /\ UNCHANGED fs
    /\ UNCHANGED <<args, dest, fs0, stages, todo, rm, world, environ, round, snap>>

\* lines 327-328: cargo_build for the next target
CargoBuild ==
    /\ pc = "cargo"
    /\ LET t    == rust_targets[step.i]
           plan == CargoBuildCalls(dest, t[1], t[2], t[3], t[4])
       IN  /\ \E rcs \in Outcomes(plan) :
                Calls(plan, rcs, fs,
                      IF step.i < Len(rust_targets)
                      THEN Continue("cargo") /\ step' = [step EXCEPT !.i = @ + 1]
                      ELSE Continue("headers") /\ step' = NoStep)
           /\ environ' = EnvironAfterRustEnv(environ, t[3], t[4])
    /\ UNCHANGED <<args, dest, fs0, stages, todo, rm, world, round, snap>>

\* lines 330-334 and generate_cxx_headers, lines 424-465
GenerateCxxHeaders ==
    /\ pc = "headers"
    /\ LET f1 == Mkdirs(Mkdirs(fs, include_dir(dest)), adblock_include_dir(dest))
       IN  IF ~world.cxxbridge
           THEN /\ Fail(SystemExitError("Missing cxxbridge-cmd"))
                /\ fs' = f1
                /\ UNCHANGED <<events, step>>
           ELSE \E rcs \in Outcomes(CxxHeaderCalls(dest)) :
                  Calls(CxxHeaderCalls(dest), rcs, Mkdirs(f1, rust_include_dir(dest)),
                        Continue("bridge") /\ UNCHANGED step)
    /\ UNCHANGED <<args, dest, fs0, stages, todo, rm, world, environ, round, snap>>

\* line 335 and generate_cxx_bridge_source, lines 468-492
GenerateCxxBridgeSource ==
    /\ pc = "bridge"
    /\ IF ~world.cxxbridge
       THEN /\ Fail(SystemExitError("Missing cxxbridge-cmd"))
            /\ UNCHANGED <<fs, events, step>>
       ELSE \E rcs \in Outcomes(CxxBridgeCalls(dest)) :
              Calls(CxxBridgeCalls(dest), rcs, fs,
                    Continue("modulemap") /\ UNCHANGED step)
    /\ UNCHANGED <<args, dest, fs0, stages, todo, rm, world, environ, round, snap>>

\* lines 337-349: the module map, the public header, the libs directory
WriteModulemap ==
    /\ pc = "modulemap"
    /\ LET header == core_include(dest) \o <<"AdblockEngine.h">>
           f1 == WriteFile(fs, include_dir(dest) \o <<"module.modulemap">>,
                           <<"modulemap">>)
       IN  IF ~Exists(fs, header)
           THEN Fail(OSErrorOf("copy2")) /\ fs' = f1 /\ UNCHANGED step
           ELSE /\ fs' = Mkdirs(WriteFile(f1, include_dir(dest) \o <<"AdblockEngine.h">>,
                                          fs[header].data),
                                libs_dir(dest))
                /\ Continue("arch")
                /\ step' = [op |-> "arch", i |-> 1]
    /\ UNCHANGED <<args, dest, fs0, events, stages, todo, rm, world, environ, round, snap>>

\* lines 379-383: build_for_arch for the next combination
BuildForArch ==
    /\ pc = "arch"
    /\ LET plan == BuildForArchCalls(dest, step.i)
           a    == arch_builds[step.i]
       IN  \E rcs \in Outcomes(plan) :
             Calls(plan, rcs, Mkdirs(fs, obj_dir(dest, a[3], a[1])),
                   IF step.i < Len(arch_builds)
                   THEN Continue("arch") /\ step' = [step EXCEPT !.i = @ + 1]
                   ELSE Continue("lipo") /\ step' = [op |-> "lipo", i |-> 1])
    /\ UNCHANGED <<args, dest, fs0, stages, todo, rm, world, environ, round, snap>>

\* lines 385-395: the next universal library
LipoCreate ==
    /\ pc = "lipo"
    /\ LET output == universal_path(dest, step.i)
           inputs == [k \in DOMAIN universal_merges[step.i].inputs |->
                         lib_path(dest, universal_merges[step.i].inputs[k])]
           plan   == LipoCalls(output, inputs)
       IN  \E rcs \in Outcomes(plan) :
             Calls(plan, rcs, Mkdirs(fs, Parent(output)),
                   IF step.i < Len(universal_merges)
                   THEN Continue("lipo") /\ step' = [step EXCEPT !.i = @ + 1]
                   ELSE Continue("bundle") /\ step' = NoStep)
    /\ UNCHANGED <<args, dest, fs0, stages, todo, rm, world, environ, round, snap>>

\* lines 397-421: the old bundle removed, the bundle made, the scratch
\* directory removed
CreateXcframework ==
    /\ pc = "bundle"
    /\ LET f1 == ClearBundlePath(fs, dest)
           plan == XcodebuildCalls(dest)
       IN  \E rcs \in Outcomes(plan) :
             /\ events' = events \o PlanEvents(plan, rcs)
             /\ IF Raised(plan, rcs) # 0
                THEN Fail(CalledProcessError(plan, rcs)) /\ fs' = Outputs(f1, plan, rcs)
                ELSE /\ fs' = RemoveSubtree(Outputs(f1, plan, rcs), build_dir(dest))
                     /\ Continue(AfterBuild(args))
    /\ UNCHANGED <<args, dest, fs0, stages, todo, rm, world, environ, step, round, snap>>

\* run_tests, lines 495-496, as main calls it on lines 513-514
RunTests ==
    /\ pc = "tests"
    /\ Enter("run_tests")
    /\ LET plan == <<ViaRun(Cmd("swift", <<"test">>, << >>, << >>, dest))>>
       IN  \E rcs \in Outcomes(plan) :
             Calls(plan, rcs, fs, Continue("finish") /\ UNCHANGED step)
    /\ UNCHANGED <<args, dest, fs0, todo, rm, world, environ, round, snap>>

\* main, lines 516-517, and line 521: the last line printed, exit status 0
Finish ==
    /\ pc = "finish"
    /\ events' = Append(events, PrintEvent("# swift-brave generation complete"))
    /\ pc' = "done"
    /\ exitCode' = 0
    /\ UNCHANGED <<args, dest, fs, fs0, stages, error, todo, rm, world, environ, step,
                   round, snap>>

---------------------------------------------------------------------------
(* The runs of main                                                        *)

\* A run's inputs: the command line's path, the destination before the run
\* (see DestTree) and the inputs outside the destination (see Worlds)
Inputs ==
    [path : PathArgs, git : BOOLEAN, ign : BOOLEAN, old : BOOLEAN, junk : JunkKinds,
     prev : BOOLEAN, tpl : TemplateIds \cup {"missing"},
     src : {"ok", "nohdr", "norust", "nomanifest"}, patches : 0..MaxPatches,
     cxxbridge : BOOLEAN, lock : LockIds, env : AmbientIds]

\* The run that meets nothing unusual
UsualInput ==
    [path |-> TheDest, git |-> TRUE, ign |-> TRUE, old |-> TRUE, junk |-> "dir",
     prev |-> FALSE, tpl |-> "tG", src |-> "ok", patches |-> 2, cxxbridge |-> TRUE,
     lock |-> "rmp", env |-> "bare"]

\* In how many of its inputs a run may differ from the usual one
MaxVariations == 1

RunInputs ==
    {in \in Inputs :
        Cardinality({f \in DOMAIN in : in[f] # UsualInput[f]}) <= MaxVariations}

WorldOf(in) ==
    [tpl |-> in.tpl, src |-> in.src, patches |-> in.patches,
     cxxbridge |-> in.cxxbridge, lock |-> in.lock, env |-> in.env]

FsOf(in) ==
    Graft(BaseWorld, TheDest, DestTree(in.git, in.ign, in.old, in.junk, in.prev))

\* The state main starts in, parse_args done
Init ==
    /\ pc = "validate"
    /\ \E in \in RunInputs :
         /\ \E sb \in BOOLEAN, st \in BOOLEAN :
              args = [swift_brave_path |-> in.path, skip_build |-> sb, skip_tests |-> st]
         /\ fs = FsOf(in)
         /\ world = WorldOf(in)
         /\ environ = AmbientOf(in.env)
    /\ fs0 = fs
    /\ dest = << >>
    /\ events = << >>
    /\ stages = << >>
    /\ exitCode = -1
    /\ error = NoError
    /\ todo = {}
    /\ rm = IdleRm
    /\ step = NoStep
    /\ round = 0
    /\ snap = << >>

Next ==
    \/ EnsureSwiftBraveDir
    \/ CleanDestination
    \/ CleanEntry
    \/ CleanReturn
    \/ RemoveTreeAttempt
    \/ RemoveTreeFallback
    \/ CopyTemplates
    \/ CopySources
    \/ ApplyPatches
    \/ ApplyPatch
    \/ NormalizeRustFeatures
    \/ ConfigureRustReleaseProfile
    \/ BuildXcframework
    \/ GenerateLockfile
    \/ PinRmp
    \/ CargoBuild
    \/ GenerateCxxHeaders
    \/ GenerateCxxBridgeSource
    \/ WriteModulemap
    \/ BuildForArch
    \/ LipoCreate
    \/ CreateXcframework
    \/ RunTests
    \/ Finish

Spec == Init /\ [][Next]_vars

---------------------------------------------------------------------------
(* The workspace reset applied repeatedly: clean_destination,              *)
(* copy_templates and copy_sources on a validated destination, then the    *)
(* same three again on what they left                                      *)

\* How many times an operation is applied again
Repeats == 1

ResetInputs ==
    {in \in Inputs :
        /\ in.path = TheDest
        /\ in.src \in {"ok", "norust"}
        /\ in.patches = UsualInput.patches
        /\ in.cxxbridge = UsualInput.cxxbridge
        /\ in.lock = UsualInput.lock
        /\ in.env = UsualInput.env}

InitReset ==
    /\ pc = "clean"
    /\ args = [swift_brave_path |-> TheDest, skip_build |-> TRUE, skip_tests |-> TRUE]
    /\ \E in \in ResetInputs : fs = FsOf(in) /\ world = WorldOf(in)
    /\ environ = AmbientOf(UsualInput.env)
    /\ fs0 = fs
    /\ dest = TheDest
    /\ events = << >>
    /\ stages = <<"ensure_swift_brave_dir">>
    /\ exitCode = -1
    /\ error = NoError
    /\ todo = {}
    /\ rm = IdleRm
    /\ step = NoStep
    /\ round = 0
    /\ snap = << >>

\* The reset is over (main is about to apply the patches): keep the tree it
\* left and reset again
ResetAgain ==
    /\ pc = "patches"
    /\ round < Repeats
    /\ round' = round + 1
    /\ snap' = Append(snap, Subtree(fs, dest))
    /\ pc' = "clean"
    /\ UNCHANGED <<args, dest, fs, fs0, events, stages, exitCode, error, todo, rm,
                   world, environ, step>>

NextReset ==
    \/ CleanDestination
    \/ CleanEntry
    \/ CleanReturn
    \/ RemoveTreeAttempt
    \/ RemoveTreeFallback
    \/ CopyTemplates
    \/ CopySources
    \/ ResetAgain

SpecReset == InitReset /\ [][NextReset]_vars

---------------------------------------------------------------------------
(* The Manifest Normalizer applied repeatedly to a manifest                *)

\* The lines a manifest is made of
ManifestLines ==
    { <<"LB", "W">>, <<"HDR">>, <<"W">>, << >>,
      <<"lto", "SP", "EQ", "SP", "fat">>, <<"lto", "SP", "EQ", "SP", "thin">>,
      <<"cgu", "SP", "EQ", "SP", "16">>, <<"cgu", "SP", "EQ", "SP", "1">>,
      <<"lto", "BS", "EQ", "fat">>, <<"CT_RLIB">>, <<"STO_ON">> }

\* How many lines a manifest has at most
MaxLines == 3

RECURSIVE LineSeqs(_)
LineSeqs(n) ==
    IF n = 0 THEN {<< >>}
    ELSE LET shorter == LineSeqs(n - 1)
         IN  shorter \cup {Append(ls, l) : ls \in shorter, l \in ManifestLines}

\* The lines, each ended by a line break
RECURSIVE JoinLines(_)
JoinLines(ls) ==
    IF ls = << >> THEN << >> ELSE Head(ls) \o <<"NL">> \o JoinLines(Tail(ls))

\* The manifests: lines, the last one with or without its line break
Manifests ==
    {JoinLines(ls) : ls \in LineSeqs(MaxLines)} \cup
    {Slice(JoinLines(ls), 1, Len(JoinLines(ls)) - 1) : ls \in LineSeqs(MaxLines) \ {<< >>}}

InitManifest ==
    /\ pc = "features"
    /\ args = [swift_brave_path |-> TheDest, skip_build |-> TRUE, skip_tests |-> TRUE]
    /\ \E m \in Manifests :
         fs = WriteFile(Graft(Mkdirs(BaseWorld, rust_dst(TheDest)), rust_dst(TheDest),
                              RustTree(TRUE)),
                        cargo_toml(TheDest), m)
    /\ world = WorldOf(UsualInput)
    /\ environ = AmbientOf(UsualInput.env)
    /\ fs0 = fs
    /\ dest = TheDest
    /\ events = << >>
    /\ stages = << >>
    /\ exitCode = -1
    /\ error = NoError
    /\ todo = {}
    /\ rm = IdleRm
    /\ step = NoStep
    /\ round = 0
    /\ snap = << >>

\* The normalizer is over: keep the text it left and normalize again
NormalizeAgain ==
    /\ pc = "finish"
    /\ round < Repeats
    /\ round' = round + 1
    /\ snap' = Append(snap, ManifestText(fs, dest))
    /\ pc' = "features"
    /\ UNCHANGED <<args, dest, fs, fs0, events, stages, exitCode, error, todo, rm,
                   world, environ, step>>

NextManifest ==
    \/ NormalizeRustFeatures
    \/ ConfigureRustReleaseProfile
    \/ NormalizeAgain

SpecManifest == InitManifest /\ [][NextManifest]_vars

---------------------------------------------------------------------------
(* Properties                                                              *)

Range(q) == {q[i] : i \in DOMAIN q}

IsExec(e) == e.k = "exec"

IsFailedExec(e) == e.k = "exec" /\ e.rc # 0

IsGitExec(e) == e.k = "exec" /\ e.c.tool = "git"

IsCargoBuildExec(e) == e.k = "exec" /\ e.c.tool = "cargo" /\ e.c.opts[1] = "build"

IsLibtoolExec(e) == e.k = "exec" /\ e.c.tool = "xcrun" /\ e.c.opts[1] = "libtool"

IsLipoExec(e) == e.k = "exec" /\ e.c.tool = "xcrun" /\ e.c.opts[1] = "lipo"

IsTestExec(e) == e.k = "exec" /\ e.c.tool = "swift"

\* The external processes of the build stage
IsBuildExec(e) == e.k = "exec" /\ e.c.tool \in {"cargo", "xcrun", "xcodebuild"}

\* The stages of a run with these flags, in main's order
StageOrder(a) ==
    <<"ensure_swift_brave_dir", "clean_destination", "copy_templates", "copy_sources",
      "apply_patches", "normalize_rust_features", "configure_rust_release_profile">>
    \o (IF a.skip_build THEN << >> ELSE <<"build_xcframework">>)
    \o (IF a.skip_tests THEN << >> ELSE <<"run_tests">>)

\* A stage has failed: an exception was raised, or a process returned non-zero
SomeStageFailed == error # NoError \/ \E i \in DOMAIN events : IsFailedExec(events[i])

\* The build stage ran to its end
BuildSucceeded ==
    /\ ~args.skip_build
    /\ \/ pc \in {"tests", "finish", "done"}
       \/ pc = "failed" /\ "run_tests" \in Range(stages)

\* C1: in every run the stages are entered in main's fixed order (each stage
\* entered is the next one of validate, clean, copy templates, copy sources,
\* apply patches, normalize features, configure release profile, build,
\* tests), and from the moment a stage has failed no stage is entered and no
\* line is printed or process started.
C1_StagesInOrderFailFast ==
    [][ /\ IsPrefix(stages', StageOrder(args))
        /\ SomeStageFailed => (stages' = stages /\ events' = events) ]_vars

\* C1's case: the build stage, entered eighth, failed on a command
C1_Witness ==
    /\ pc = "failed"
    /\ error.type = "CalledProcessError"
    /\ Len(stages) = 8
    /\ stages[8] = "build_xcframework"
    /\ IsFailedExec(events[Len(events)])

\* C2: when the path given resolves to a final component other than
\* swift-brave, or to something that does not exist or is no directory,
\* validation fails, the filesystem is as it was, and nothing else has run:
\* no other stage was entered and nothing was printed or started.
C2_BadDestinationRejected ==
    LET resolved == Resolve(fs0, args.swift_brave_path)
        bad == \/ Name(resolved) # "swift-brave"
               \/ resolved \notin DOMAIN fs0
               \/ fs0[resolved].kind # "dir"
    IN  (bad /\ pc # "validate") =>
            /\ pc = "failed"
            /\ error.type = "SystemExit"
            /\ exitCode # 0
            /\ fs = fs0
            /\ stages = <<"ensure_swift_brave_dir">>
            /\ events = << >>

\* C2's case: a link named swift-brave that resolves to a directory of
\* another name has been rejected
C2_Witness ==
    /\ args.swift_brave_path = <<"w", "alias", "swift-brave">>
    /\ Name(Resolve(fs0, args.swift_brave_path)) = "other"
    /\ pc = "failed"

\* C3: the Manifest Normalizer is idempotent: normalizing the manifest a
\* second time leaves the text the first normalization produced.
C3_NormalizerIdempotent ==
    (pc = "finish" /\ round >= 1) => ManifestText(fs, dest) = snap[round]

\* The git apply processes started so far
GitExecs == SelectSeq(events, IsGitExec)

\* The k-th patch file of PATCHES_DIR by name
NamedPatch(k) == PATCHES_DIR \o <<ToString(k) \o ".patch">>

\* C4: the patch tool is started for the patch files in the order of their
\* names, one at a time; a patch whose invocation fails is the last one
\* tried and ends the run, so that every patch before it was applied and
\* none after it was tried; the stage is left for the next one only with all
\* patches applied; and with no patch file the stage fails before any
\* invocation.
C4_PatchesInOrderStopAtFirstFailure ==
    /\ Len(GitExecs) <= world.patches
    /\ \A k \in DOMAIN GitExecs :
         /\ GitExecs[k].c.ins = <<NamedPatch(k)>>
         /\ k < Len(GitExecs) => GitExecs[k].rc = 0
         /\ GitExecs[k].rc # 0 =>
              /\ pc = "failed"
              /\ error.type = "CalledProcessError"
              /\ events[Len(events)] = GitExecs[k]
    /\ "normalize_rust_features" \in Range(stages) =>
         /\ Len(GitExecs) = world.patches
         /\ \A k \in DOMAIN GitExecs : GitExecs[k].rc = 0
    /\ (world.patches = 0 /\ "apply_patches" \in Range(stages)) =>
         /\ pc = "failed"
         /\ error.type = "SystemExit"
         /\ GitExecs = << >>
         /\ stages[Len(stages)] = "apply_patches"

\* C4's case: of three patches the second failed to apply
C4_Witness ==
    /\ world.patches = 3
    /\ Len(GitExecs) = 2
    /\ GitExecs[1].rc = 0
    /\ GitExecs[2].rc # 0
    /\ pc = "failed"

\* clean_destination has visited the entry
Visited(entry) == pc # "clean" /\ entry \notin todo

\* The entries of the destination, as the run found it, that are not
\* allow-listed and resolve outside of it
EscapingEntries ==
    {e \in Children(fs0, TheDest) :
        /\ Name(e) \notin {".git", ".gitignore"}
        /\ ~IsPrefix(TheDest, Resolve(fs0, e))}

\* The entries that are links resolving inside the destination
InnerLinks ==
    {e \in Children(fs0, TheDest) :
        /\ Name(e) \notin {".git", ".gitignore"}
        /\ fs0[e].kind = "link"
        /\ IsPrefix(TheDest, Resolve(fs0, e))}

\* C5: cleaning deletes nothing outside the destination: whatever was
\* outside is still there, unchanged; an entry that is not allow-listed and
\* resolves outside (a link whose target is outside) makes cleanup raise the
\* unsafe-path error when it comes to it, the link's target untouched; and a
\* link that resolves inside is unlinked, what it points to left in place.
C5_CleanupStaysInside ==
    /\ Outside(fs, TheDest) = Outside(fs0, TheDest)
    /\ \A e \in EscapingEntries :
         Visited(e) =>
            /\ pc = "failed"
            /\ error = SystemExitError("outside of destination")
            /\ Subtree(fs, Resolve(fs0, e)) = Subtree(fs0, Resolve(fs0, e))
    /\ \A e \in InnerLinks :
         Visited(e) =>
            /\ e \notin DOMAIN fs
            /\ rm.path # e
            /\ Subtree(fs, Resolve(fs0, e)) = Subtree(fs0, Resolve(fs0, e))

\* C5's case: cleanup came to a link pointing outside after it had removed
\* another entry, and raised
C5_Witness ==
    /\ EscapingEntries # {}
    /\ \E e \in EscapingEntries : Visited(e)
    /\ pc = "failed"
    /\ TheDest \o <<"A.txt">> \in DOMAIN fs0
    /\ TheDest \o <<"A.txt">> \notin DOMAIN fs
    /\ <<"w", "ext", "data">> \in DOMAIN fs

\* C6: the workspace reset is idempotent: a second reset, run on what the
\* first one left, is stopped by none of its own checks (only the operating
\* system failing a removal can end it), and it leaves the same tree of
\* names and contents as the first, whether or not there was an ignore-file
\* before the first.
C6_ResetIdempotent ==
    round >= 1 =>
        /\ pc = "failed" => error.type = "OSError"
        /\ pc = "patches" => Subtree(fs, dest) = snap[round]

\* C6's case: a second reset has completed on a destination that had no
\* ignore-file before the first one, with a template that holds one
C6_Witness ==
    /\ pc = "patches"
    /\ round = 1
    /\ TheDest \o <<".gitignore">> \notin DOMAIN fs0
    /\ world.tpl = "tG"
    /\ fs[TheDest \o <<".gitignore">>] = FileNode("tplG")

\* The cargo build processes started so far
CargoBuilds == SelectSeq(events, IsCargoBuildExec)

\* The static library of a triple
TripleLibrary(triple) ==
    TheDest \o <<"Sources", "BraveAdblockRust", "target", triple, "release",
                 "libadblock_cxx.a">>

\* The static libraries under the Rust target directory
BuiltLibraries ==
    {p \in DOMAIN fs :
        /\ IsPrefix(TheDest \o <<"Sources", "BraveAdblockRust", "target">>, p)
        /\ Name(p) = "libadblock_cxx.a"}

\* C7: the release build is never started twice for a target: the k-th
\* build started is that of the k-th descriptor and writes the library
\* keyed by that descriptor's triple; and when the build stage has
\* succeeded, exactly five builds ran, all successful, for five different
\* triples, and exactly five libraries exist, one per triple.
C7_FiveTargetsOnceEach ==
    /\ Len(CargoBuilds) <= 5
    /\ \A k \in DOMAIN CargoBuilds :
         /\ CargoBuilds[k].c.opts[4] = rust_targets[k][1]
         /\ CargoBuilds[k].c.out = TripleLibrary(CargoBuilds[k].c.opts[4])
         /\ \A j \in DOMAIN CargoBuilds :
              j # k => CargoBuilds[j].c.opts[4] # CargoBuilds[k].c.opts[4]
    /\ BuildSucceeded =>
         /\ Len(CargoBuilds) = 5
         /\ \A k \in DOMAIN CargoBuilds : CargoBuilds[k].rc = 0
         /\ Cardinality({CargoBuilds[k].c.opts[4] : k \in DOMAIN CargoBuilds}) = 5
         /\ BuiltLibraries = {TripleLibrary(CargoBuilds[k].c.opts[4]) :
                                k \in DOMAIN CargoBuilds}
         /\ Cardinality(BuiltLibraries) = 5

\* C7's case: a run that built and finished
C7_Witness ==
    /\ pc = "done"
    /\ ~args.skip_build
    /\ Len(CargoBuilds) = 5

\* The lipo and libtool processes started so far
LipoExecs == SelectSeq(events, IsLipoExec)

LibtoolExecs == SelectSeq(events, IsLibtoolExec)

\* The per-architecture library of an SDK and an architecture
ArchLibrary(sdk, arch) ==
    TheDest \o <<"Build", "libs", "obj-" \o sdk \o "-" \o arch, "libBraveAdblockCore.a">>

\* What each merge is to be made of
MergeInputs ==
    << <<ArchLibrary("iphoneos", "arm64")>>,
       <<ArchLibrary("iphonesimulator", "arm64"), ArchLibrary("iphonesimulator", "x86_64")>>,
       <<ArchLibrary("macosx", "arm64"), ArchLibrary("macosx", "x86_64")>> >>

\* The library was produced before the event at index n
ProducedBefore(lib, n) ==
    \E j \in 1..(n - 1) :
        IsLibtoolExec(events[j]) /\ events[j].rc = 0 /\ events[j].c.out = lib

\* C8: there are at most three merges, the device one of exactly the
\* arm64 iphoneos library, the simulator one of exactly the two simulator
\* libraries, the desktop one of exactly the two macOS libraries; a merge
\* starts only after the archiver has produced each of its inputs; and when
\* the build stage has succeeded all three merges ran and each of the five
\* per-architecture libraries went into exactly one of them.
C8_ThreeMergesOfTheRightLibraries ==
    /\ Len(LipoExecs) <= 3
    /\ \A k \in DOMAIN LipoExecs : LipoExecs[k].c.ins = MergeInputs[k]
    /\ \A n \in DOMAIN events :
         IsLipoExec(events[n]) =>
            \A lib \in Range(events[n].c.ins) : ProducedBefore(lib, n)
    /\ BuildSucceeded =>
         /\ Len(LipoExecs) = 3
         /\ \A k \in DOMAIN LipoExecs : LipoExecs[k].rc = 0
         /\ Len(LibtoolExecs) = 5
         /\ \A i \in DOMAIN LibtoolExecs :
              Cardinality({k \in DOMAIN LipoExecs :
                             LibtoolExecs[i].c.out \in Range(LipoExecs[k].c.ins)}) = 1

\* C8's case: the three merges have run, the simulator one of two libraries
C8_Witness ==
    /\ BuildSucceeded
    /\ Len(LipoExecs) = 3
    /\ Len(LipoExecs[2].c.ins) = 2
    /\ Len(LipoExecs[1].c.ins) = 1

C10_EveryProcessLoggedFirst ==
    \A i \in DOMAIN events :
        IsExec(events[i]) => (i > 1 /\ events[i - 1] = LogEvent(events[i].c))

\* The lines of the text that start with the key
KeyLines(text, key) ==
    {i \in DOMAIN text : text[i] = key /\ (i = 1 \/ text[i - 1] = "NL")}

\* The manifest starts with the [profile.release] header and has no other
\* section: the block is all that follows the header
BlockIsTheRest(text) ==
    /\ text # << >>
    /\ text[1] = "HDR"
    /\ \A i \in DOMAIN text : i > 1 => ~StartsWithBracket(text[i])

\* C11: the release profile's keys are set or inserted: where the block
\* already has a line for lto or for codegen-units, normalizing sets that
\* line and adds no second line for the key, so the block has as many lines
\* for the key as it had, the first of them with the fixed value.
C11_SetsExistingLine ==
    (pc = "finish" /\ round = 0 /\ BlockIsTheRest(ManifestText(fs0, dest))) =>
        LET before == ManifestText(fs0, dest)
            after  == ManifestText(fs, dest)
        IN  \A key \in {"lto", "cgu"} :
                KeyLines(before, key) # {} =>
                    Cardinality(KeyLines(after, key)) = Cardinality(KeyLines(before, key))

\* The errors raised for a precondition that does not hold
PreconditionErrors ==
    {SystemExitError(msg) :
        msg \in {"not named swift-brave", "not a directory", "Missing templates",
                 "Missing cxxbridge-cmd", "Missing Cargo.toml", "No patches found"}}

\* C12: a precondition error (bad destination, missing templates, missing
\* bridge-generator manifest, missing Cargo.toml, no patch files) is raised
\* before the destination is changed: a run ended by one of them leaves the
\* destination as it found it.
C12_PreconditionErrorsBeforeMutation ==
    (pc = "failed" /\ error \in PreconditionErrors) =>
        LET d == Resolve(fs0, args.swift_brave_path)
        IN  Subtree(fs, d) = Subtree(fs0, d)

\* C13: remove_tree is bounded and ends: while it runs it has made at most
\* 3 attempts; a step that leaves it running is a retry after a
\* directory-not-empty failure, which counts one more attempt, at most the
\* third, and changes nothing else; any other failure ends the run at once
\* with the operating system's error; after three such failures the one
\* fallback walk either returns or ends the run, never retrying; and
\* whenever remove_tree returns, its target and all below it are gone.
C13_RemoveTreeBounded ==
    [][ pc = "remove_tree" =>
          /\ rm.tries \in 0..3
          /\ rm.path \in DOMAIN fs
          /\ pc' \in {"remove_tree", "clean_iter", "failed"}
          /\ pc' = "remove_tree" =>
               /\ rm.tries < 3
               /\ rm' = [path |-> rm.path, tries |-> rm.tries + 1]
               /\ fs' = fs
          /\ pc' = "failed" =>
               /\ error'.type = "OSError"
               /\ error'.tool = (IF rm.tries < 3 THEN "rmtree" ELSE "walk")
               /\ exitCode' # 0
          /\ pc' = "clean_iter" =>
               /\ \A q \in DOMAIN fs' : ~IsPrefix(rm.path, q)
               /\ Outside(fs', rm.path) = Outside(fs, rm.path)
               /\ error' = NoError
      ]_vars

\* C13's case: three removals failed on a directory that was not empty and
\* the fallback walk is due
C13_Witness ==
    /\ pc = "remove_tree"
    /\ rm.tries = 3
    /\ rm.path \in DOMAIN fs
    /\ fs[rm.path].kind = "dir"

\* The destination's tree as the reset under way found it: the run's first
\* tree, or what the reset before left
TreeBeforeReset == IF round = 0 THEN Subtree(fs0, dest) ELSE snap[round]

\* C14: when clean_destination has returned, the destination holds exactly
\* the allow-listed entries (.git, .gitignore) it held before, with all
\* below them, unchanged; every other top-level entry is gone.
C14_CleanLeavesAllowListed ==
    pc = "templates" =>
        LET before == TreeBeforeReset
            kept   == {q \in DOMAIN before :
                         \/ q = dest
                         \/ IsPrefix(dest \o <<".git">>, q)
                         \/ IsPrefix(dest \o <<".gitignore">>, q)}
        IN  /\ Subtree(fs, dest) = [q \in kept |-> before[q]]
            /\ \A e \in Children(fs, dest) : Name(e) \in {".git", ".gitignore"}

\* C14's case: cleaning has returned on a destination that held the two
\* allow-listed entries, a file and a directory with contents
C14_Witness ==
    /\ pc = "templates"
    /\ round = 0
    /\ {dest \o <<".git">>, dest \o <<".gitignore">>} \subseteq DOMAIN fs
    /\ \E e \in Children(fs0, dest) :
         /\ Name(e) \notin {".git", ".gitignore"}
         /\ fs0[e].kind = "dir"
         /\ Children(fs0, e) # {}
    /\ \E e \in Children(fs0, dest) :
         Name(e) \notin {".git", ".gitignore"} /\ fs0[e].kind = "file"

IsLockfileExec(e) ==
    e.k = "exec" /\ e.c.tool = "cargo" /\ e.c.opts[1] = "generate-lockfile"

IsPinExec(e) == e.k = "exec" /\ e.c.tool = "cargo" /\ e.c.opts[1] = "update"

\* A process of the cross-compilation: an xcrun lookup or a cargo build
IsCrossCompileExec(e) == IsCargoBuildExec(e) \/ (e.k = "exec" /\ e.c.tool = "xcrun")

LockfileExecs == SelectSeq(events, IsLockfileExec)

PinExecs == SelectSeq(events, IsPinExec)

\* The lockfile that cargo generates has a package named rmp
LockfileNamesRmp == world.lock = "rmp"

\* C15: the lockfile is generated at most once in a run and exactly once
\* in a successful build, and no process of a cross-compilation starts
\* before it has succeeded; the pinning command runs at most once, only
\* for a lockfile that names the package rmp, after the lockfile was
\* generated and before any cross-compilation; and once a cross-compilation
\* has started, the pinning command has run if and only if the lockfile
\* names rmp.
C15_LockfileThenPinThenBuilds ==
    /\ Len(LockfileExecs) <= 1
    /\ Len(PinExecs) <= 1
    /\ BuildSucceeded => Len(LockfileExecs) = 1
    /\ \A n \in DOMAIN events :
         /\ IsPinExec(events[n]) =>
              /\ LockfileNamesRmp
              /\ \E j \in 1..(n - 1) : IsLockfileExec(events[j]) /\ events[j].rc = 0
              /\ \A j \in 1..(n - 1) : ~IsCrossCompileExec(events[j])
         /\ IsCrossCompileExec(events[n]) =>
              /\ \E j \in 1..(n - 1) : IsLockfileExec(events[j]) /\ events[j].rc = 0
              /\ LockfileNamesRmp <=>
                   \E j \in 1..(n - 1) : IsPinExec(events[j]) /\ events[j].rc = 0

\* C15's case: a build that succeeded without pinning, the lockfile naming
\* rmp-serde and not rmp
C15_Witness ==
    /\ BuildSucceeded
    /\ world.lock = "normp"
    /\ PinExecs = << >>
    /\ Len(LockfileExecs) = 1
    /\ Len(CargoBuilds) = 5

\* The flags of a RUSTFLAGS value: its words, the blanks left out
RECURSIVE FlagsOf(_)
FlagsOf(t) ==
    IF t = << >> \/ t = <<"unset">> THEN << >>
    ELSE IF t[1] = "SP" THEN FlagsOf(Tail(t))
    ELSE <<t[1]>> \o FlagsOf(Tail(t))

\* The SDK and the minimum version of each triple
SdkOfTriple(triple) ==
    CASE triple = "aarch64-apple-ios" -> <<"iphoneos", "15.0">>
      [] triple = "aarch64-apple-ios-sim" -> <<"iphonesimulator", "15.0">>
      [] triple = "x86_64-apple-ios" -> <<"iphonesimulator", "15.0">>
      [] triple = "aarch64-apple-darwin" -> <<"macosx", "14.0">>
      [] triple = "x86_64-apple-darwin" -> <<"macosx", "14.0">>

\* The environment the run started in
Ambient == AmbientOf(world.env)

\* C16: the environment of the process is never modified, and every process
\* other than a cargo build gets it as it is; each cargo build gets the
\* ambient environment with just these changes: SDKROOT, CC, CXX, AR and
\* RANLIB are what xcrun answers for the descriptor's own SDK; the
\* deployment target set is IPHONEOS_DEPLOYMENT_TARGET for an iphone SDK and
\* MACOSX_DEPLOYMENT_TARGET otherwise, the other one as in the ambient
\* environment; RUSTFLAGS holds the ambient flags followed by the dead-strip
\* flag once; every other variable is the ambient one.  Nothing set for one
\* descriptor shows in another's environment.
C16_BuildEnvironmentFresh ==
    /\ environ = Ambient
    /\ \A n \in DOMAIN events :
         LET c == events[n].c
         IN  IF IsCargoBuildExec(events[n])
             THEN LET sdk    == SdkOfTriple(c.opts[4])[1]
                      minv   == SdkOfTriple(c.opts[4])[2]
                      iphone == sdk \in {"iphoneos", "iphonesimulator"}
                  IN  /\ c.env["SDKROOT"] = <<"sdk-path:" \o sdk>>
                      /\ c.env["CC"] = <<"find:" \o sdk \o ":clang">>
                      /\ c.env["CXX"] = <<"find:" \o sdk \o ":clang++">>
                      /\ c.env["AR"] = <<"find:" \o sdk \o ":ar">>
                      /\ c.env["RANLIB"] = <<"find:" \o sdk \o ":ranlib">>
                      /\ c.env["IPHONEOS_DEPLOYMENT_TARGET"] =
                           (IF iphone THEN <<minv>> ELSE Ambient["IPHONEOS_DEPLOYMENT_TARGET"])
                      /\ c.env["MACOSX_DEPLOYMENT_TARGET"] =
                           (IF iphone THEN Ambient["MACOSX_DEPLOYMENT_TARGET"] ELSE <<minv>>)
                      /\ FlagsOf(c.env["RUSTFLAGS"]) = FlagsOf(Ambient["RUSTFLAGS"]) \o <<"DS">>
                      /\ c.env["PATH"] = Ambient["PATH"]
             ELSE events[n].k = "exec" => c.env = Ambient

\* C16's case: with RUSTFLAGS set before the run, the macOS build started
\* after the iOS ones, keeping the flag that was set
C16_Witness ==
    /\ world.env = "flags"
    /\ Len(CargoBuilds) >= 4
    /\ CargoBuilds[4].c.env["RUSTFLAGS"] = <<"-Cfoo", "SP", "DS">>
    /\ CargoBuilds[4].c.env["MACOSX_DEPLOYMENT_TARGET"] = <<"14.0">>
    /\ CargoBuilds[1].c.env["IPHONEOS_DEPLOYMENT_TARGET"] = <<"15.0">>

\* A run of the bridge generator
IsGeneratorExec(e) == e.k = "exec" /\ e.c.tool = "cargo" /\ e.c.opts[1] = "run"

\* A compilation, and a compilation of the bridge's translation unit
IsCompileExec(e) ==
    /\ e.k = "exec"
    /\ e.c.tool = "xcrun"
    /\ Len(e.c.opts) >= 6
    /\ e.c.opts[3] = "clang++"
    /\ e.c.opts[4] = "-c"

IsBridgeCompileExec(e) == IsCompileExec(e) /\ e.c.opts[6] # "-fobjc-arc"

\* What the generator is to produce: the two headers and the translation unit
GeneratedHeader == TheDest \o <<"Build", "include", "adblock", "lib.rs.h">>

GeneratedRuntimeHeader == TheDest \o <<"Build", "include", "rust", "cxx.h">>

TranslationUnit == TheDest \o <<"Build", "adblock-cxx.cc">>

\* The generator's runs that write the path
GenerationsOf(path) ==
    {n \in DOMAIN events : IsGeneratorExec(events[n]) /\ events[n].c.out = path}

\* C17: the generator writes nothing but the two headers and the
\* translation unit, each at most once in a run; without the vendored
\* generator manifest it is never started, nothing is compiled and the build
\* does not succeed; a compilation starts only after each of the three was
\* generated, successfully, and none is generated after one; every
\* compilation of the bridge reads the one translation unit, which is in
\* place from its generation until the build ends, and a build that
\* succeeded made five of them.
C17_BridgeGeneratedOnce ==
    /\ \A n \in DOMAIN events :
         IsGeneratorExec(events[n]) =>
            events[n].c.out \in {GeneratedHeader, GeneratedRuntimeHeader, TranslationUnit}
    /\ \A path \in {GeneratedHeader, GeneratedRuntimeHeader, TranslationUnit} :
         /\ Cardinality(GenerationsOf(path)) <= 1
         /\ \A n \in DOMAIN events :
              IsCompileExec(events[n]) =>
                 \E j \in GenerationsOf(path) : j < n /\ events[j].rc = 0
         /\ BuildSucceeded => Cardinality(GenerationsOf(path)) = 1
    /\ ~world.cxxbridge =>
         /\ \A n \in DOMAIN events :
              ~IsGeneratorExec(events[n]) /\ ~IsCompileExec(events[n])
         /\ ~BuildSucceeded
    /\ \A n \in DOMAIN events :
         IsBridgeCompileExec(events[n]) => events[n].c.ins[1] = TranslationUnit
    /\ ((\E n \in DOMAIN events : IsCompileExec(events[n])) /\ ~BuildSucceeded) =>
         /\ TranslationUnit \in DOMAIN fs
         /\ fs[TranslationUnit].kind = "file"
    /\ BuildSucceeded =>
         Cardinality({n \in DOMAIN events : IsBridgeCompileExec(events[n])}) = 5

\* C17's case: the fifth compilation of the bridge has run, after one
\* generation of the translation unit
C17_Witness ==
    /\ Cardinality({n \in DOMAIN events : IsBridgeCompileExec(events[n])}) = 5
    /\ Cardinality(GenerationsOf(TranslationUnit)) = 1
    /\ Cardinality(GenerationsOf(GeneratedHeader)) = 1
    /\ pc = "lipo"

\* The five combinations in the order of their builds: architecture, triple, SDK
Combinations ==
    << <<"arm64", "aarch64-apple-ios", "iphoneos">>,
       <<"arm64", "aarch64-apple-ios-sim", "iphonesimulator">>,
       <<"x86_64", "x86_64-apple-ios", "iphonesimulator">>,
       <<"arm64", "aarch64-apple-darwin", "macosx">>,
       <<"x86_64", "x86_64-apple-darwin", "macosx">> >>

\* The object directory of an SDK and an architecture
ObjectDirectory(sdk, arch) == TheDest \o <<"Build", "libs", "obj-" \o sdk \o "-" \o arch>>

\* A successful process before the event at index n wrote the path
WrittenBefore(path, n) ==
    \E j \in 1..(n - 1) : IsExec(events[j]) /\ events[j].rc = 0 /\ events[j].c.out = path

\* C18: the k-th run of the archiver is for the k-th combination: it merges
\* exactly the two objects of that combination's directory and the native
\* library of its triple, into the library of that directory; it starts
\* only after two compilations have written the objects and a cargo build
\* has written the native library; the directories and the libraries of
\* the combinations differ from each other; and a build that succeeded ran
\* the archiver five times.
C18_ArchiverAfterItsInputs ==
    /\ Len(LibtoolExecs) <= 5
    /\ \A k \in DOMAIN LibtoolExecs :
         LET dir == ObjectDirectory(Combinations[k][3], Combinations[k][1])
         IN  /\ LibtoolExecs[k].c.ins =
                  <<dir \o <<"AdblockEngine.o">>, dir \o <<"adblock_cxx.o">>,
                    TripleLibrary(Combinations[k][2])>>
             /\ LibtoolExecs[k].c.out = dir \o <<"libBraveAdblockCore.a">>
             /\ \A j \in DOMAIN LibtoolExecs :
                  j # k => /\ LibtoolExecs[j].c.out # LibtoolExecs[k].c.out
                           /\ Parent(LibtoolExecs[j].c.out) # Parent(LibtoolExecs[k].c.out)
    /\ \A n \in DOMAIN events :
         IsLibtoolExec(events[n]) =>
            /\ \A i \in {1, 2} :
                 \E j \in 1..(n - 1) :
                    /\ IsCompileExec(events[j])
                    /\ events[j].rc = 0
                    /\ events[j].c.out = events[n].c.ins[i]
            /\ \E j \in 1..(n - 1) :
                 /\ IsCargoBuildExec(events[j])
                 /\ events[j].rc = 0
                 /\ events[j].c.out = events[n].c.ins[3]
            /\ \A i \in 1..3 : events[n].c.ins[i] \in DOMAIN fs \/ BuildSucceeded
    /\ BuildSucceeded =>
         /\ Len(LibtoolExecs) = 5
         /\ \A k \in DOMAIN LibtoolExecs : LibtoolExecs[k].rc = 0

\* C18's case: the archiver has run for the fifth combination, after the
\* two simulator ones
C18_Witness ==
    /\ Len(LibtoolExecs) = 5
    /\ LibtoolExecs[5].rc = 0
    /\ LibtoolExecs[2].c.out # LibtoolExecs[3].c.out
    /\ WrittenBefore(LibtoolExecs[5].c.ins[3], Len(events))
    /\ pc = "lipo"

IsBundleExec(e) == e.k = "exec" /\ e.c.tool = "xcodebuild"

Bundle == TheDest \o <<"Binary", "BraveAdblockCore.xcframework">>

ScratchDirectory == TheDest \o <<"Build">>

UniversalLibraries ==
    {TheDest \o <<"Build", "libs", name, "libBraveAdblockCore.a">> :
        name \in {"ios", "ios-sim", "macos"}}

\* C19: the bundle is made afresh.  In the step that starts the bundle
\* tool the three universal libraries exist, each written by a merge that
\* succeeded; no bundle is at the output path when the tool starts, so that
\* a tool that fails leaves none and a tool that succeeds leaves one that
\* holds nothing of a bundle that was there before; and once the build
\* stage has succeeded the tool has run, the bundle is there and the
\* scratch directory, with all below it, is not.
C19_BundleBuiltFresh ==
    [][ /\ (events' # events /\ IsBundleExec(events'[Len(events')])) =>
             /\ \A lib \in UniversalLibraries :
                  /\ lib \in DOMAIN fs
                  /\ \E j \in DOMAIN events :
                       IsLipoExec(events[j]) /\ events[j].rc = 0 /\ events[j].c.out = lib
             /\ \A j \in DOMAIN events : ~IsBundleExec(events[j])
             /\ events'[Len(events')].c.out = Bundle
             /\ IF events'[Len(events')].rc = 0
                THEN DOMAIN Subtree(fs', Bundle) = {Bundle}
                ELSE DOMAIN Subtree(fs', Bundle) = {}
        /\ BuildSucceeded' =>
             /\ \E j \in DOMAIN events' : IsBundleExec(events'[j]) /\ events'[j].rc = 0
             /\ Bundle \in DOMAIN fs'
             /\ DOMAIN Subtree(fs', ScratchDirectory) = {}
      ]_vars

\* C19's case: a build has succeeded where the templates had put a bundle
\* at the output path, and nothing of that bundle is left
C19_Witness ==
    /\ BuildSucceeded
    /\ world.tpl = "tB"
    /\ Bundle \in DOMAIN fs
    /\ Bundle \o <<"Info.plist">> \notin DOMAIN fs
    /\ ScratchDirectory \notin DOMAIN fs

\* The build stage has been entered and has not succeeded: it is under way,
\* or it has failed
BuildUnfinished == "build_xcframework" \in Range(stages) /\ ~BuildSucceeded

\* C20: the scratch directory is removed on the success path only: from
\* the build stage's start until its success the directory exists, so a run
\* that a failing step of the stage has ended still has it; and nothing is
\* cleaned up or rolled back on the way out: what the successful processes
\* of the run have written under the destination is still there, and so are
\* the sources the reset copied.
C20_ScratchKeptOnAbort ==
    BuildUnfinished =>
        /\ ScratchDirectory \in DOMAIN fs
        /\ fs[ScratchDirectory].kind = "dir"
        /\ \A j \in DOMAIN events :
             (IsExec(events[j]) /\ events[j].rc = 0 /\ IsPrefix(TheDest, events[j].c.out)) =>
                 events[j].c.out \in DOMAIN fs
        /\ TheDest \o <<"Sources", "BraveAdblockRust", "Cargo.toml">> \in DOMAIN fs
        /\ TheDest \o <<"Sources", "BraveAdblockCore", "src", "AdblockEngine.mm">> \in DOMAIN fs

\* C20's case: the bundle tool failed, after everything else of the build
\* had succeeded
C20_Witness ==
    /\ pc = "failed"
    /\ stages[Len(stages)] = "build_xcframework"
    /\ error.type = "CalledProcessError"
    /\ error.tool = "xcodebuild"
    /\ ScratchDirectory \in DOMAIN fs
    /\ UniversalLibraries \subseteq DOMAIN fs

============================================================================
